---- MODULE Spec2Model ----
(***************************************************************************)
(* Model of meTal.py: the import hook _meTalizing_import, the process-wide *)
(* decorator stack _meTalizers and the context manager meTalmanager.       *)
(*                                                                         *)
(* Attribute names are strings, modelled as sequences of ASCII code        *)
(* points, so that str.lower() and the sorted order of dir() are computed  *)
(* as Python computes them.  A definition is a record: the name it was     *)
(* defined under (base) and the decorators wrapped around it, innermost    *)
(* first (wraps).                                                          *)
(***************************************************************************)
EXTENDS Integers, Sequences, FiniteSets, TLC

\* ---------------------------------------------------------------- bounds
MaxAttrs == 2
MaxDepth == 2

\* ------------------------------------------------------- input alphabets
\* the attribute names a module may define: "HH", "Hh", "hH", "hh"
Names == { <<72, 72>>, <<72, 104>>, <<104, 72>>, <<104, 104>> }
\* (decorator, args, kwargs) as MeTal.__call__ receives them:
\*   meTal(decorator1)          meTal(decorator2)
\*   meTal(decorator1, 1)       meTal(decorator2, key=1)
Scopes == { <<"decorator1", <<>>, {}>>, <<"decorator2", <<>>, {}>>,
            <<"decorator1", <<1>>, {}>>, <<"decorator2", <<>>, {<<"key", 1>>}>> }
\* the scope the threads of the concurrent runs open
ThreadScopes == { <<"decorator1", <<>>, {}>> }
\* simple.py of the concurrent runs defines Hh only
ThreadNames == { <<72, 104>> }
Modules == {"simple"}
MainThread == "main"
Threads == {"main", "worker"}

\* Program state:
\*   modules      sys.modules: the underlying module objects
\*   _meTalizers  the process-wide decorator stack
\*   open         per thread, the with-blocks it is inside, outermost first
\*   imported     per thread, what its last import statement bound
\* History:
\*   original     each module as _builtin_import first loaded it
\*   previous     per thread, the kind of the import before the last one
\*   lastExit     how the most recently left with-block ended
\*   owners       the thread that pushed each entry of _meTalizers
\*   foreignPop, foreignDecorate, interleaved   see ScopeExit, Import
VARIABLES modules, _meTalizers, open, imported, threads, original, previous,
          lastExit, owners, foreignPop, foreignDecorate, interleaved

vars == <<modules, _meTalizers, open, imported, threads, original, previous,
          lastExit, owners, foreignPop, foreignDecorate, interleaved>>

\* ------------------------------------------------------------- str.lower
LowerChar(c) == IF c >= 65 /\ c <= 90 THEN c + 32 ELSE c

lower(name) == [i \in 1..Len(name) |-> LowerChar(name[i])]

\* ------------------------------------------------------------ dir(module)
RECURSIVE StrLess(_, _)
StrLess(a, b) ==
    IF a = <<>> THEN b # <<>>
    ELSE IF b = <<>> THEN FALSE
    ELSE IF Head(a) # Head(b) THEN Head(a) < Head(b)
    ELSE StrLess(Tail(a), Tail(b))

RECURSIVE sorted(_)
sorted(S) ==
    IF S = {} THEN <<>>
    ELSE LET least == CHOOSE x \in S : \A y \in S \ {x} : StrLess(x, y)
         IN  <<least>> \o sorted(S \ {least})

dir(module) == sorted(DOMAIN module.dict)

\* -------------------------------------------------- the normalization pass
\* setattr(module, normed, module.__dict__.pop(name))
Rename(dict, name, normed) ==
    [k \in (DOMAIN dict \ {name}) \cup {normed} |->
        IF k = normed THEN dict[name] ELSE dict[k]]

RECURSIVE RenameLoop(_, _)
RenameLoop(dict, names) ==
    IF names = <<>> THEN dict
    ELSE LET name == Head(names)
             normed == lower(name)
         IN  IF name # normed
             THEN RenameLoop(Rename(dict, name, normed), Tail(names))
             ELSE RenameLoop(dict, Tail(names))

IsMeTalName(name) == name # lower(name)

meTalized_list(names) ==
    LET kept == SelectSeq(names, IsMeTalName)
    IN  [i \in 1..Len(kept) |-> lower(kept[i])]

Normalize(module) ==
    LET names == dir(module)
    IN  [dict |-> RenameLoop(module.dict, names),
         meTalized |-> meTalized_list(names),
         hasattr |-> TRUE]

\* the pass run on every import
NeedsPassAlways(module) == TRUE

\* if not hasattr(module, '__meTalized__')
NeedsPass(module) == ~module.hasattr

Normalized(module) ==
    IF NeedsPass(module) THEN Normalize(module) ELSE module

\* ------------------------------------------------------------- decoration
\* decorate(*dargs, **dkwargs)(defn)
CallFactory(entry, defn) ==
    [defn EXCEPT !.wraps = Append(@, [decorate |-> entry[1], called |-> TRUE,
                                      dargs |-> entry[2], dkwargs |-> entry[3]])]

\* decorate(defn)
CallDirect(entry, defn) ==
    [defn EXCEPT !.wraps = Append(@, [decorate |-> entry[1], called |-> FALSE,
                                      dargs |-> <<>>, dkwargs |-> {}])]

ApplyOne(entry, defn) ==
    IF entry[2] # <<>> \/ entry[3] # {}
    THEN CallFactory(entry, defn)
    ELSE CallDirect(entry, defn)

reversed(s) == [i \in 1..Len(s) |-> s[Len(s) + 1 - i]]

RECURSIVE ApplyAll(_, _)
ApplyAll(entries, defn) ==
    IF entries = <<>> THEN defn
    ELSE ApplyAll(Tail(entries), ApplyOne(Head(entries), defn))

Decorate(stack, defn) == ApplyAll(reversed(stack), defn)

RECURSIVE DecorateLoop(_, _, _)
DecorateLoop(dict, names, stack) ==
    IF names = <<>> THEN dict
    ELSE DecorateLoop([dict EXCEPT ![Head(names)] = Decorate(stack, @)],
                      Tail(names), stack)

\* types.ModuleType(module.__name__) filled from module.__dict__, decorated
meTalized(module, stack) ==
    [module EXCEPT !.dict = DecorateLoop(module.dict, module.meTalized, stack)]

\* the decoration loop writing to the module itself instead of a fresh one
UnderlyingInPlace(module, stack) ==
    IF stack = <<>> THEN Normalized(module)
    ELSE meTalized(Normalized(module), stack)

\* What _meTalizing_import leaves in the underlying module object: the
\* decoration loop writes to the fresh module only
Underlying(module, stack) == Normalized(module)

\* What _meTalizing_import returns: the module itself when no scope is open,
\* otherwise a fresh decorated module.  A returned module is a reference
\* (see View); a fresh one is held by value.
Returned(m, module, stack) ==
    IF stack = <<>>
    THEN [kind |-> "module", name |-> m, obj |-> <<>>]
    ELSE [kind |-> "fresh", name |-> m,
          obj |-> meTalized(Normalized(module), stack)]

\* ------------------------------------------------------------ meTalmanager
\* _meTalizers.append((decorate, dargs, dkwargs))
Push(stack, entry) == Append(stack, entry)

\* the pop placed after the yield without try/finally
PopUnlessRaised(stack, raised) ==
    IF raised \/ stack = <<>> THEN stack ELSE SubSeq(stack, 1, Len(stack) - 1)

\* the pop left out
PopNothing(stack, raised) == stack

\* finally: _meTalizers.pop(), whether the body raised or not.  (pop() of an
\* empty list raises IndexError and leaves the list empty.)
Pop(stack, raised) ==
    IF stack = <<>> THEN stack ELSE SubSeq(stack, 1, Len(stack) - 1)

\* ------------------------------------------------------------------ state
Definition(name) == [base |-> name, wraps |-> <<>>]

Loaded(S) ==
    [dict |-> [n \in S |-> Definition(n)], meTalized |-> <<>>, hasattr |-> FALSE]

NoImport == [kind |-> "none", name |-> "", obj |-> <<>>, scopes |-> <<>>]

Menu == IF threads = {MainThread} THEN Scopes ELSE ThreadScopes

InitCommon ==
    /\ modules = original
    /\ _meTalizers = <<>>
    /\ open = [t \in threads |-> <<>>]
    /\ imported = [t \in threads |-> NoImport]
    /\ previous = [t \in threads |-> "none"]
    /\ lastExit = "none"
    /\ owners = <<>>
    /\ foreignPop = FALSE
    /\ foreignDecorate = FALSE
    /\ interleaved = FALSE

Init ==
    /\ threads = {MainThread}
    /\ \E S \in SUBSET Names :
          /\ Cardinality(S) <= MaxAttrs
          /\ original = [m \in Modules |-> Loaded(S)]
    /\ InitCommon

InitThreads ==
    /\ threads = Threads
    /\ original = [m \in Modules |-> Loaded(ThreadNames)]
    /\ InitCommon

OthersOpen(t) == \E u \in threads \ {t} : open[u] # <<>>

\* with meTal(decorator, *args, **kwargs):   __enter__
ScopeEnter(t, entry) ==
    /\ Len(_meTalizers) < MaxDepth
    /\ _meTalizers' = Push(_meTalizers, entry)
    /\ open' = [open EXCEPT ![t] = Append(@, entry)]
    /\ owners' = Append(owners, t)
    /\ interleaved' = (interleaved \/ OthersOpen(t))
    /\ UNCHANGED <<modules, imported, threads, original, previous, lastExit,
                   foreignPop, foreignDecorate>>

\* leaving the innermost with-block of thread t:   __exit__
ScopeExit(t, raised) ==
    /\ open[t] # <<>>
    /\ _meTalizers' = Pop(_meTalizers, raised)
    /\ owners' = Pop(owners, raised)
    /\ open' = [open EXCEPT ![t] = SubSeq(@, 1, Len(@) - 1)]
    /\ lastExit' = IF raised THEN "raised" ELSE "normal"
    /\ foreignPop' = (foreignPop \/
                        (owners # <<>> /\ owners[Len(owners)] # t))
    /\ interleaved' = (interleaved \/ OthersOpen(t))
    /\ UNCHANGED <<modules, imported, threads, original, previous,
                   foreignDecorate>>

\* import m   in thread t
Import(t, m) ==
    /\ modules' = [modules EXCEPT ![m] = Underlying(@, _meTalizers)]
    /\ imported' = [imported EXCEPT ![t] =
                      [kind |-> Returned(m, modules[m], _meTalizers).kind,
                       name |-> m,
                       obj |-> Returned(m, modules[m], _meTalizers).obj,
                       scopes |-> open[t]]]
    /\ previous' = [previous EXCEPT ![t] = imported[t].kind]
    /\ foreignDecorate' = (foreignDecorate \/
                             \E i \in 1..Len(owners) : owners[i] # t)
    /\ interleaved' = (interleaved \/ OthersOpen(t))
    /\ UNCHANGED <<_meTalizers, open, threads, original, lastExit, owners,
                   foreignPop>>

Next ==
    \/ \E t \in threads : \E entry \in Menu : ScopeEnter(t, entry)
    \/ \E t \in threads : \E raised \in BOOLEAN : ScopeExit(t, raised)
    \/ \E t \in threads : \E m \in Modules : Import(t, m)

Spec == Init /\ [][Next]_vars

SpecThreads == InitThreads /\ [][Next]_vars

\* The module object an import result refers to
View(imp) == IF imp.kind = "module" THEN modules[imp.name] ELSE imp.obj

\* ------------------------------------------------------------ properties
Main == imported[MainThread]

MeTalizedNames(m) ==
    { modules[m].meTalized[i] : i \in 1..Len(modules[m].meTalized) }

Wrap(entry, called) ==
    [decorate |-> entry[1], called |-> called,
     dargs |-> IF called THEN entry[2] ELSE <<>>,
     dkwargs |-> IF called THEN entry[3] ELSE {}]

HasArgs(entry) == entry[2] # <<>> \/ entry[3] # {}

\* The definitions of module m that were first declared under a name whose
\* lower-case form is n
OriginalsOf(m, n) ==
    { original[m].dict[k] : k \in { x \in DOMAIN original[m].dict : lower(x) = n } }

\* C1: an import made while exactly one scope meTal(decorator), without
\* arguments, is open returns a module in which every name of __meTalized__
\* is bound to decorator(original definition).
C1_OneScopeDecoratesOnce ==
    (/\ Main.kind # "none"
     /\ Len(Main.scopes) = 1
     /\ ~HasArgs(Main.scopes[1]))
    => /\ Main.kind = "fresh"
       /\ \A n \in MeTalizedNames(Main.name) :
            Main.obj.dict[n] =
              [base |-> modules[Main.name].dict[n].base,
               wraps |-> << Wrap(Main.scopes[1], FALSE) >>]

\* C2: an import made while no scope is open returns the underlying module,
\* and every name of __meTalized__ is bound there to an original undecorated
\* definition, whatever scoped imports came before.
C2_UnscopedImportUndecorated ==
    /\ (Main.kind # "none" /\ Main.scopes = <<>>)
       => /\ Main.kind = "module"
          /\ \A n \in MeTalizedNames(Main.name) :
               View(Main).dict[n] \in OriginalsOf(Main.name, n)
    /\ \A m \in Modules :
          \A n \in DOMAIN modules[m].dict : modules[m].dict[n].wraps = <<>>

C2_Witness ==
    /\ Main.kind = "module"
    /\ previous[MainThread] = "fresh"
    /\ modules[Main.name].meTalized # <<>>

\* C3: for properly nested single-threaded entries and exits the stack equals
\* the list of open scopes in entry order (empty when none is open), whether
\* blocks end normally or by raising, and an import is decorated only by
\* scopes that were open when it ran.
C3_StackDiscipline ==
    /\ _meTalizers = open[MainThread]
    /\ Main.kind = "module" => Main.scopes = <<>>
    /\ Main.kind = "fresh" =>
         \A n \in DOMAIN Main.obj.dict :
            \A i \in 1..Len(Main.obj.dict[n].wraps) :
               \E j \in 1..Len(Main.scopes) :
                  Main.obj.dict[n].wraps[i] =
                     Wrap(Main.scopes[j], HasArgs(Main.scopes[j]))

C3_Witness ==
    /\ lastExit = "raised"
    /\ open[MainThread] = <<>>
    /\ _meTalizers = <<>>
    /\ Main.kind = "module"
    /\ previous[MainThread] = "fresh"

\* C4: once a module has its __meTalized__ list, no later import, scoped or
\* not, changes the underlying module's attribute names, values or list.
C4_RenamedOnce ==
    [][\A m \in Modules : modules[m].hasattr => modules'[m] = modules[m]]_vars

C4_Witness ==
    /\ Main.kind = "fresh"
    /\ previous[MainThread] # "none"
    /\ modules[Main.name].meTalized # <<>>

\* C5: the renaming pass never overwrites or loses an attribute: every
\* definition the module had before the pass is bound to some name after it.
C5_NoDefinitionLost ==
    \A m \in Modules :
       modules[m].hasattr =>
          \A k \in DOMAIN original[m].dict :
             \E n \in DOMAIN modules[m].dict :
                modules[m].dict[n] = original[m].dict[k]

\* C6: after the first import every attribute whose name was not lower-case
\* is unbound under that name and bound under the lower-case name to the same
\* value, __meTalized__ holds exactly those lower-case names, and lower-case
\* attributes keep their name and value.
C6_RenamedToLower ==
    \A m \in Modules :
       modules[m].hasattr =>
          /\ \A k \in DOMAIN original[m].dict :
                IF k # lower(k)
                THEN /\ k \notin DOMAIN modules[m].dict
                     /\ lower(k) \in DOMAIN modules[m].dict
                     /\ modules[m].dict[lower(k)] = original[m].dict[k]
                ELSE /\ k \in DOMAIN modules[m].dict
                     /\ modules[m].dict[k] = original[m].dict[k]
          /\ MeTalizedNames(m) =
                { lower(k) : k \in { x \in DOMAIN original[m].dict : x # lower(x) } }

\* C7: with one scope open, opened with at least one positional or keyword
\* argument, each name of __meTalized__ is bound to
\* decorator(*args, **kwargs)(original); opened with no argument, to
\* decorator(original), the decorator not being called as a factory.
C7_FactoryOnlyWithArgs ==
    (Main.kind = "fresh" /\ Len(Main.scopes) = 1)
    => \A n \in MeTalizedNames(Main.name) :
          /\ Len(Main.obj.dict[n].wraps) = 1
          /\ Main.obj.dict[n].wraps[1] =
                Wrap(Main.scopes[1], HasArgs(Main.scopes[1]))
          /\ Main.obj.dict[n].base = modules[Main.name].dict[n].base

\* C8: with several scopes open every name of __meTalized__ is wrapped by
\* all their decorators, the innermost scope's first and the outermost
\* scope's last.
C8_InnermostFirst ==
    (Main.kind = "fresh" /\ Len(Main.scopes) >= 2)
    => \A n \in MeTalizedNames(Main.name) :
          /\ Len(Main.obj.dict[n].wraps) = Len(Main.scopes)
          /\ \A i \in 1..Len(Main.scopes) :
                Main.obj.dict[n].wraps[i].decorate =
                   Main.scopes[Len(Main.scopes) + 1 - i][1]

\* C9: an import decorated by an entry another thread pushed, or an exit
\* popping an entry another thread pushed, happens only in runs where a
\* thread acted while another thread's scope was open; and such runs exist.
C9_WrongOnlyWhenInterleaved ==
    (foreignPop \/ foreignDecorate) => interleaved

C9_Witness ==
    /\ foreignPop
    /\ foreignDecorate
    /\ \E t \in threads :
          /\ imported[t].kind = "fresh"
          /\ imported[t].scopes = <<>>

====
